---- MODULE Spec2Model ----
(***************************************************************************)
(* A model of src/app.py: the rate-limited client (RateLimitedClient), the *)
(* hashname builder (get_hashname), the listing-id resolver (get_nameid),  *)
(* the order-book fetcher (item_data) and the batch loop                   *)
(* (process_all_skins) with its checkpoint file.                           *)
(*                                                                         *)
(* Strings are sequences of one-character strings, so that replace, split  *)
(* and concatenation are computed as the code computes them.  Time is      *)
(* counted in units of half a second.  Prices are kept as the pair         *)
(* <<units, hundredths>> that int(cents)/100 denotes.                      *)
(***************************************************************************)
EXTENDS Integers, Sequences, FiniteSets, TLC

\* ------------------------------------------------------------- bounds
\* Catalogs of the model hold up to NItems items.
NItems == 2
\* A request's latency (dispatch to response or failure), in time units.
MaxLatency == 1
\* Rate-limit retries of one request are counted up to RetryCap ("or more").
RetryCap == 2
\* get_hashname on its own: weapon names of up to MaxWeaponLen characters and
\* skin names of up to MaxSkinLen characters.
MaxWeaponLen == 3
MaxSkinLen == 1

\* ----------------------------------------------------- program constants
\* RateLimitedClient.__init__ defaults, 1.5 s and 3.0 s, in half seconds.
min_delay == 3
max_delay == 6
\* time.sleep(5) after a rate-limit rejection, in half seconds.
RATE_LIMIT_SLEEP == 10

\* Elapsed times are compared with delays of at most max_delay only, so the
\* clocks saturate there.
ClockCap == max_delay

\* The time since the latest dispatch is compared with min_delay only.
GapCap == min_delay

Min2(a, b) == IF a < b THEN a ELSE b

ClockAdd(c, d) == Min2(c + d, ClockCap)

GapAdd(c, d) == Min2(c + d, GapCap)

\* ------------------------------------------------------------ strings
IsPrefix(p, s) == Len(p) <= Len(s) /\ SubSeq(s, 1, Len(p)) = p

\* ReplaceSpaces with "+" for a space, as form encoding has it.
RECURSIVE ReplaceSpaces_plus(_)
ReplaceSpaces_plus(s) ==
    IF s = <<>> THEN <<>>
    ELSE (IF Head(s) = " " THEN <<"+">> ELSE <<Head(s)>>)
         \o ReplaceSpaces_plus(Tail(s))

\* str.replace(" ", "%20")
RECURSIVE ReplaceSpaces(_)
ReplaceSpaces(s) ==
    IF s = <<>> THEN <<>>
    ELSE (IF Head(s) = " " THEN <<"%", "2", "0">> ELSE <<Head(s)>>)
         \o ReplaceSpaces(Tail(s))

NameSep == <<" ", "|", " ">>

\* str.split(' | '): the parts between the non-overlapping occurrences of the
\* separator, scanned from the left.
RECURSIVE SplitFrom(_, _)
SplitFrom(cur, rest) ==
    IF rest = <<>> THEN <<cur>>
    ELSE IF IsPrefix(NameSep, rest)
         THEN <<cur>> \o SplitFrom(<<>>, SubSeq(rest, Len(NameSep) + 1, Len(rest)))
         ELSE SplitFrom(Append(cur, Head(rest)), Tail(rest))

Split(s) == SplitFrom(<<>>, s)

\* ------------------------------------------------------- get_hashname
WearNames ==
    <<  <<"F","a","c","t","o","r","y"," ","N","e","w">>,
        <<"M","i","n","i","m","a","l"," ","W","e","a","r">>,
        <<"F","i","e","l","d","-","T","e","s","t","e","d">>,
        <<"W","e","l","l","-","W","o","r","n">>,
        <<"B","a","t","t","l","e","-","S","c","a","r","r","e","d">>  >>

\* float_conditions with a sixth key, 5, of an empty wear name.
float_conditions_six ==
    [w \in 0..5 |->
        <<"%","2","0","%","2","8">>
            \o (IF w = 5 THEN <<>> ELSE ReplaceSpaces(WearNames[w + 1]))
            \o <<"%","2","9">>]

\* The table float_conditions: wear w is entry w + 1.
float_conditions ==
    [w \in 0..4 |->
        <<"%","2","0","%","2","8">> \o ReplaceSpaces(WearNames[w + 1])
            \o <<"%","2","9">>]

\* "StatTrak(TM)%20": the one character U+2122 is written "(TM)".
StatTrakPrefix == <<"S","t","a","t","T","r","a","k","(TM)","%","2","0">>

\* float_conditions[wear] raises KeyError for a wear that is no key.
get_hashname_raises(wear) == wear \notin DOMAIN float_conditions

get_hashname(item, skin, wear, stat) ==
    LET item1 == ReplaceSpaces(item)
        skin1 == ReplaceSpaces(skin)
        wear1 == float_conditions[wear]
        item2 == IF stat = 1 THEN StatTrakPrefix \o item1 ELSE item1
    IN  item2 \o <<"%","2","0","%","7","C","%","2","0">> \o skin1 \o wear1

\* ------------------------------------------------------------- inputs
\* Catalog records as json.load returns them: a record may lack 'name',
\* 'wear' or 'stat' (has* = FALSE; the field's value is then unused).
CatalogItem(hasName, name, hasWear, wear, hasStat, stat) ==
    [hasName |-> hasName, name |-> name, hasWear |-> hasWear, wear |-> wear,
     hasStat |-> hasStat, stat |-> stat]

NameAKRed == <<"A","K"," ","|"," ","R"," ","L">>
NameNoSep == <<"A","K">>

\* No name; a well-formed item ('wear' left to its default); a wear that is
\* no key of float_conditions; a name without ' | '.
ItemKinds ==
    { CatalogItem(FALSE, <<>>, FALSE, 0, FALSE, 0),
      CatalogItem(TRUE, NameAKRed, FALSE, 0, TRUE, 1),
      CatalogItem(TRUE, NameAKRed, TRUE, 5, FALSE, 0),
      CatalogItem(TRUE, NameNoSep, TRUE, 1, FALSE, 0) }

RECURSIVE SeqsOfLen(_, _)
SeqsOfLen(S, n) ==
    IF n = 0 THEN {<<>>}
    ELSE {Append(q, x) : q \in SeqsOfLen(S, n - 1), x \in S}

Catalogs == UNION {SeqsOfLen(ItemKinds, n) : n \in 0..NItems}

\* The input file: missing, not valid JSON, or a catalog.
InputKinds == {"missing", "invalid_json", "catalog"}

\* The three requests of an item, in the order item_data issues them.
Stages == {"listing", "histogram", "volume"}

\* Response texts, by what the code's parsing reads in them.
\* Listing page: whether 'Market_LoadOrderSpread( ' occurs, and the token
\* after it (<<n>>: the digits of n; <<>>: not an integer literal).
\* The marketplace's id of the k-th item's listing is 100 + k.
ListingBodies(k) ==
    { [marker |-> TRUE, token |-> <<100 + k>>],
      [marker |-> TRUE, token |-> <<>>],
      [marker |-> FALSE, token |-> <<>>] }

\* A depth array's text: evaluates to these [price, count] pairs, or does not
\* evaluate to a list of pairs (ok = FALSE).  A price is <<units, hundredths>>.
GraphBuy == [ok |-> TRUE, pairs |-> << <<<<1, 50>>, 3>>, <<<<1, 40>>, 9>> >>]
GraphSell == [ok |-> TRUE, pairs |-> << <<<<2, 75>>, 2>> >>]
GraphBad == [ok |-> FALSE, pairs |-> <<>>]

\* A labeled integer field: <<>> the label is absent, <<-1>> the text after
\* the label is no integer literal, <<n>> the digits of n.
Absent == <<>>
NotInt == <<-1>>

\* Histogram: the two price fields (cents) and the two depth arrays.
HistogramBodies ==
    [buy : {Absent, NotInt, <<150>>}, sell : {Absent, <<275>>},
     bg : {GraphBuy, GraphBad}, sg : {GraphSell, GraphBad}]

\* Price overview: the volume field.
VolumeBodies == {[volume |-> v] : v \in {Absent, NotInt, <<12>>}}

Bodies(st, k) ==
    CASE st = "listing" -> ListingBodies(k)
      [] st = "histogram" -> HistogramBodies
      [] st = "volume" -> VolumeBodies

\* The output file: absent, or holding text.  st = "complete": the text is the
\* JSON of recs; "empty": zero bytes (just truncated); "partial": a cut-off
\* write.
FileAbsent == [st |-> "absent", recs |-> <<>>]
FileEmpty == [st |-> "empty", recs |-> <<>>]
FilePartial == [st |-> "partial", recs |-> <<>>]
FileOf(recs) == [st |-> "complete", recs |-> recs]

NoData == [kind |-> "none"]
ErrorData(cause) == [kind |-> "error", error |-> cause]

\* The file as it was before the run: none, or the output of an earlier run.
StaleRecs == << [item |-> 1, market_data |-> ErrorData("stale")] >>
InitialFiles == {FileAbsent, FileOf(StaleRecs)}

NoRequest == [stage |-> "none", gap |-> -1, retry |-> FALSE, nameid |-> <<>>]

\* No call of get_hashname on its own is modelled in this behaviour.
NoCall == <<>>

VARIABLES
    input,              \* what the input file is
    skins,              \* the catalog in it
    file0,              \* the output file before the run
    file,               \* the output file
    pc,                 \* where process_all_skins is
    exit,               \* how process_all_skins returned
    i,                  \* the loop's index (enumerate from 1)
    status,             \* each item's state in the per-item state machine
    market_data,        \* each skin's 'market_data' entry
    processed_skins,    \* the accumulator: indices into skins (references)
    client,             \* the run's RateLimitedClient: none, open, closed
    lastSet,            \* last_request_time > 0
    sinceLast,          \* time.time() - last_request_time, while lastSet
    dispatched,         \* a request has been dispatched in this run
    sinceDispatch,      \* time since the latest dispatch
    stage,              \* the request item_data is at
    retries,            \* depth of get's recursion for the current request
    inflight,           \* the request on the wire
    resp,               \* the response get returned
    hashname,           \* the current item's hashname
    nameid,             \* get_nameid's result for the current item
    order_data,         \* item_data's histogram text for the current item
    data,               \* item_data's dict for the current item
    exc,                \* the exception being handled
    wsite,              \* which checkpoint write runs: "try" or "except"
    sent,               \* per item and stage: get calls that dispatched
    events,             \* what has happened to the current item (history)
    prev,               \* the records the file held before its latest rewrite
    args,               \* the arguments of a call of get_hashname on its own
    out                 \* what that call returned or raised

vars == <<input, skins, file0, file, pc, exit, i, status, market_data,
          processed_skins, client, lastSet, sinceLast, dispatched,
          sinceDispatch, stage, retries, inflight, resp, hashname, nameid,
          order_data, data, exc, wsite, sent, events, prev, args, out>>

fileVars == <<file0, file, prev>>
\* What no step of process_all_skins changes.
inputVars == <<input, skins, args, out>>
clockVars == <<lastSet, sinceLast, dispatched, sinceDispatch>>
itemVars == <<hashname, nameid, order_data, data>>
getVars == <<stage, retries, inflight, resp>>
recordVars == <<status, market_data, processed_skins>>

Init ==
    /\ input \in InputKinds
    /\ skins \in (IF input = "catalog" THEN Catalogs ELSE {<<>>})
    /\ file0 \in InitialFiles
    /\ file = file0
    /\ pc = "start"
    /\ exit = "none"
    /\ i = 0
    /\ status = [k \in 1..Len(skins) |-> "PENDING"]
    /\ market_data = [k \in 1..Len(skins) |-> NoData]
    /\ processed_skins = <<>>
    /\ client = "none"
    /\ lastSet = FALSE
    /\ sinceLast = 0
    /\ dispatched = FALSE
    /\ sinceDispatch = 0
    /\ stage = "none"
    /\ retries = 0
    /\ inflight = NoRequest
    /\ resp = <<>>
    /\ hashname = <<>>
    /\ nameid = <<>>
    /\ order_data = <<>>
    /\ data = NoData
    /\ exc = "none"
    /\ wsite = "none"
    /\ sent = [k \in 1..Len(skins) |-> [s \in Stages |-> 0]]
    /\ events = {}
    /\ prev = <<>>
    /\ args = NoCall
    /\ out = NoCall

\* ------------------------------------------------------------ helpers
\* Time d passes: both elapsed times grow.
Elapse(d) ==
    /\ sinceLast' = IF lastSet THEN ClockAdd(sinceLast, d) ELSE sinceLast
    /\ sinceDispatch' = IF dispatched THEN GapAdd(sinceDispatch, d)
                        ELSE sinceDispatch

\* int(text)/100: the price <<units, hundredths>> of a cents value.
PriceOf(cents) == <<cents \div 100, cents % 100>>

\* [{"price": float(order[0]), "count": order[1]} for order in graph]
OrdersOf(pairs) ==
    [k \in 1..Len(pairs) |-> [price |-> pairs[k][1], count |-> pairs[k][2]]]

\* json.dump(processed_skins): each reference is written with the skin's
\* current fields.
Snapshot(acc, md) ==
    [k \in 1..Len(acc) |-> [item |-> acc[k], market_data |-> md[acc[k]]]]

Note(tag) == events' = events \cup {tag}

\* An exception raised inside the loop body's try block (lines 247-268) is
\* caught at line 270.
Raise(cause) ==
    /\ exc' = cause
    /\ pc' = "except"

\* ------------------------------------------------- process_all_skins
\* ReadInput with the output file cleared before the input is read.
ReadInput_OutputFirst ==
    /\ pc = "start"
    /\ file' = FileOf(<<>>)
    /\ IF input = "catalog"
       THEN /\ pc' = "clear_open"
            /\ exit' = exit
       ELSE /\ pc' = "done"
            /\ exit' = (IF input = "missing" THEN "input_missing"
                        ELSE "input_invalid")
    /\ UNCHANGED <<inputVars, file0, prev, i, recordVars, client, clockVars,
                   getVars, itemVars, exc, wsite, sent, events>>

\* Lines 227-233: open and parse the input file.
ReadInput ==
    /\ pc = "start"
    /\ IF input = "catalog"
       THEN /\ pc' = "clear_open"
            /\ exit' = exit
       ELSE /\ pc' = "done"
            /\ exit' = (IF input = "missing" THEN "input_missing"
                        ELSE "input_invalid")
    /\ UNCHANGED <<inputVars, fileVars, i, recordVars, client, clockVars,
                   getVars, itemVars, exc, wsite, sent, events>>

\* Line 236: open(output_file, 'w') truncates the file, or fails and leaves
\* it (the failure reaches line 291).
ClearOpen ==
    /\ pc = "clear_open"
    /\ \/ /\ file' = FileEmpty
          /\ pc' = "clear_dump"
          /\ exit' = exit
       \/ /\ file' = file
          /\ pc' = "done"
          /\ exit' = "unexpected"
    /\ UNCHANGED <<inputVars, file0, prev, i, recordVars, client, clockVars,
                   getVars, itemVars, exc, wsite, sent, events>>

\* Line 237: json.dump([], f) and the close.
ClearDump ==
    /\ pc = "clear_dump"
    /\ \/ /\ file' = FileOf(<<>>)
          /\ pc' = "new_client"
          /\ exit' = exit
       \/ /\ file' = FileEmpty
          /\ pc' = "done"
          /\ exit' = "unexpected"
    /\ UNCHANGED <<inputVars, file0, prev, i, recordVars, client, clockVars,
                   getVars, itemVars, exc, wsite, sent, events>>

\* Lines 241-246: the client, the accumulator, the loop's start.
NewClient ==
    /\ pc = "new_client"
    /\ client' = "open"
    /\ lastSet' = FALSE
    /\ processed_skins' = <<>>
    /\ i' = 1
    /\ pc' = "loop"
    /\ UNCHANGED <<inputVars, fileVars, exit, status, market_data, sinceLast,
                   dispatched, sinceDispatch, getVars, itemVars, exc, wsite,
                   sent, events>>

\* Lines 246 and 279-285: the loop is over; finally closes the client.
LoopExit ==
    /\ pc = "loop"
    /\ i > Len(skins)
    /\ client' = "closed"
    /\ pc' = "done"
    /\ exit' = "complete"
    /\ UNCHANGED <<inputVars, fileVars, i, recordVars, clockVars, getVars,
                   itemVars, exc, wsite, sent, events>>

\* Skip with the nameless item appended to the accumulator all the same.
Skip_Recorded ==
    /\ pc = "loop"
    /\ i <= Len(skins)
    /\ ~skins[i].hasName
    /\ status' = [status EXCEPT ![i] = "SKIPPED"]
    /\ processed_skins' = Append(processed_skins, i)
    /\ i' = i + 1
    /\ UNCHANGED <<inputVars, fileVars, pc, exit, market_data, client,
                   clockVars, getVars, itemVars, exc, wsite, sent, events>>

\* Lines 249-251: an item without 'name' is logged and skipped.
Skip ==
    /\ pc = "loop"
    /\ i <= Len(skins)
    /\ ~skins[i].hasName
    /\ status' = [status EXCEPT ![i] = "SKIPPED"]
    /\ i' = i + 1
    /\ UNCHANGED <<inputVars, fileVars, pc, exit, market_data,
                   processed_skins, client, clockVars, getVars, itemVars,
                   exc, wsite, sent, events>>

\* BuildHashname with the listing id of an earlier item of the same name,
\* wear and stat used again, in place of a listing-page request.
BuildHashname_Cached ==
    /\ pc = "loop"
    /\ i <= Len(skins)
    /\ skins[i].hasName
    /\ LET skin == skins[i]
           skin_names == Split(skin.name)
           wear == IF skin.hasWear THEN skin.wear ELSE 0
           stat == IF skin.hasStat THEN skin.stat ELSE 0
           known == {j \in 1..(i - 1) :
                        skins[j] = skin /\ market_data[j].kind = "ok"}
       IN  IF Len(skin_names) < 2 \/ get_hashname_raises(wear)
           THEN /\ Raise(IF Len(skin_names) < 2 THEN "name_IndexError"
                         ELSE "wear_KeyError")
                /\ Note("hashname_failed")
                /\ UNCHANGED <<status, hashname, stage, retries, nameid>>
           ELSE /\ hashname' = get_hashname(skin_names[1], skin_names[2],
                                            wear, stat)
                /\ retries' = 0
                /\ pc' = "get_wait"
                /\ IF known = {}
                   THEN /\ status' = [status EXCEPT ![i] = "HASHNAME_BUILT"]
                        /\ stage' = "listing"
                        /\ nameid' = nameid
                   ELSE /\ status' = [status EXCEPT
                                          ![i] = "LISTING_ID_RESOLVED"]
                        /\ stage' = "histogram"
                        /\ nameid' = market_data[CHOOSE j \in known : TRUE].nameid
                /\ UNCHANGED <<exc, events>>
    /\ UNCHANGED <<inputVars, fileVars, exit, i, market_data,
                   processed_skins, client, clockVars, inflight, resp,
                   order_data, data, wsite, sent>>

\* Lines 254-256: split the name, build the hashname, enter item_data and
\* get_nameid up to the first client.get.
BuildHashname ==
    /\ pc = "loop"
    /\ i <= Len(skins)
    /\ skins[i].hasName
    /\ LET skin == skins[i]
           skin_names == Split(skin.name)
           wear == IF skin.hasWear THEN skin.wear ELSE 0
           stat == IF skin.hasStat THEN skin.stat ELSE 0
       IN  IF Len(skin_names) < 2
           THEN /\ Raise("name_IndexError")
                /\ Note("hashname_failed")
                /\ UNCHANGED <<status, hashname, stage, retries>>
           ELSE IF get_hashname_raises(wear)
           THEN /\ Raise("wear_KeyError")
                /\ Note("hashname_failed")
                /\ UNCHANGED <<status, hashname, stage, retries>>
           ELSE /\ hashname' = get_hashname(skin_names[1], skin_names[2],
                                            wear, stat)
                /\ status' = [status EXCEPT ![i] = "HASHNAME_BUILT"]
                /\ stage' = "listing"
                /\ retries' = 0
                /\ pc' = "get_wait"
                /\ UNCHANGED <<exc, events>>
    /\ UNCHANGED <<inputVars, fileVars, exit, i, market_data,
                   processed_skins, client, clockVars, inflight, resp,
                   nameid, order_data, data, wsite, sent>>

\* ---------------------------------------------------- RateLimitedClient
\* wait_if_needed: the sleep it takes for a drawn delay (0: none).
wait_time(delay) ==
    IF lastSet /\ sinceLast < delay THEN delay - sinceLast ELSE 0

\* Line 42: wait_if_needed draws a delay in [min_delay, max_delay] and sleeps
\* for what is left of it.
WaitIfNeeded ==
    /\ pc = "get_wait"
    /\ \E delay \in min_delay..max_delay : Elapse(wait_time(delay))
    /\ pc' = "get_send"
    /\ UNCHANGED <<inputVars, fileVars, exit, i, recordVars, client, lastSet,
                   dispatched, getVars, itemVars, exc, wsite, sent, events>>

\* Line 44: self.client.get(url) puts the request on the wire.
Dispatch ==
    /\ pc = "get_send"
    /\ inflight' = [stage |-> stage,
                    gap |-> IF dispatched THEN sinceDispatch ELSE -1,
                    retry |-> retries > 0,
                    nameid |-> IF stage = "histogram" THEN nameid ELSE <<>>]
    /\ dispatched' = TRUE
    /\ sinceDispatch' = 0
    /\ sent' = IF retries = 0
               THEN [sent EXCEPT ![i][stage] = @ + 1]
               ELSE sent
    /\ pc' = "get_recv"
    /\ UNCHANGED <<inputVars, fileVars, exit, i, recordVars, client, lastSet,
                   sinceLast, stage, retries, resp, itemVars, exc, wsite,
                   events>>

\* Lines 45-46: a response arrives; last_request_time = time.time().
GetResponse ==
    /\ pc = "get_recv"
    /\ \E lat \in 0..MaxLatency, body \in Bodies(stage, i) :
          /\ sinceDispatch' = GapAdd(sinceDispatch, lat)
          /\ resp' = <<body>>
    /\ lastSet' = TRUE
    /\ sinceLast' = 0
    /\ retries' = 0
    /\ inflight' = NoRequest
    /\ pc' = "parse"
    /\ UNCHANGED <<inputVars, fileVars, exit, i, recordVars, client,
                   dispatched, stage, itemVars, exc, wsite, sent, events>>

\* Lines 47-51: an httpx.HTTPError whose response has status 429: sleep 5
\* seconds and call get again.
GetRateLimited ==
    /\ pc = "get_recv"
    /\ \E lat \in 0..MaxLatency : Elapse(lat + RATE_LIMIT_SLEEP)
    /\ retries' = Min2(retries + 1, RetryCap)
    /\ inflight' = NoRequest
    /\ pc' = "get_wait"
    /\ UNCHANGED <<inputVars, fileVars, exit, i, recordVars, client, lastSet,
                   dispatched, stage, resp, itemVars, exc, wsite, sent,
                   events>>

\* Lines 159-170: item_data's dict once the volume and the nameid are set.
Returned(d, volume, id) ==
    [kind |-> "ok", buy_req |-> d.buy_req, sell_req |-> d.sell_req,
     buy_orders |-> d.buy_orders, sell_orders |-> d.sell_orders,
     volume |-> volume, nameid |-> id]

\* What an httpx.HTTPError that is no rate-limit rejection looks like to line
\* 48: response None (or of another status), or no response attribute at all
\* (evaluating e.response then raises AttributeError).
TransportErrors == {"no_response", "no_response_attr"}

get_raises(err) ==
    IF err = "no_response_attr" THEN "AttributeError" ELSE "HTTPError"

\* caught_in_item_data without the try around the volume fetch.
caught_nowhere(st) == FALSE

\* Lines 155-163: only the volume fetch runs under item_data's own try.
caught_in_item_data(st) == st = "volume"

\* Lines 47-52 for any other httpx.HTTPError: get raises.  In get_nameid and
\* in the histogram fetch the exception leaves item_data; in the volume fetch
\* lines 161-165 catch it, set volume None and item_data returns.
GetFails ==
    /\ pc = "get_recv"
    /\ \E lat \in 0..MaxLatency : Elapse(lat)
    /\ retries' = 0
    /\ inflight' = NoRequest
    /\ \E err \in TransportErrors :
          IF caught_in_item_data(stage)
          THEN /\ data' = Returned(data, <<>>, nameid)
               /\ status' = [status EXCEPT ![i] = "ORDER_BOOK_FETCHED"]
               /\ pc' = "record"
               /\ exc' = exc
          ELSE /\ Raise(stage \o "_" \o get_raises(err))
               /\ UNCHANGED <<data, status>>
    /\ Note(stage \o "_fetch_failed")
    /\ UNCHANGED <<inputVars, fileVars, exit, i, market_data,
                   processed_skins, client, lastSet, dispatched, stage, resp,
                   hashname, nameid, order_data, wsite, sent>>

\* ------------------------------------------------ get_nameid, item_data
\* Line 90: html.split(marker)[1] raises IndexError without the marker.
split_marker_raises(html) == ~html.marker

\* int_raises with a token that is no integer passed on as the id.
int_never_raises(token) == FALSE

\* Line 93: int(token) raises ValueError unless the token is an integer.
int_raises(token) == token = <<>>

\* Lines 89-93 and 109-113: the token after the marker, as an integer.
ParseNameid ==
    /\ pc = "parse"
    /\ stage = "listing"
    /\ LET html == resp[1]
       IN  IF split_marker_raises(html)
           THEN /\ Raise("listing_IndexError")
                /\ UNCHANGED <<nameid, status, stage>>
           ELSE IF int_raises(html.token)
           THEN /\ Raise("listing_ValueError")
                /\ UNCHANGED <<nameid, status, stage>>
           ELSE /\ nameid' = html.token
                /\ status' = [status EXCEPT ![i] = "LISTING_ID_RESOLVED"]
                /\ stage' = "histogram"
                /\ pc' = "get_wait"
                /\ exc' = exc
    /\ events' = events \cup
            (IF resp[1].marker /\ resp[1].token # <<>> THEN {}
             ELSE {"listing_unparsable"})
    /\ resp' = <<>>
    /\ UNCHANGED <<inputVars, fileVars, exit, i, market_data,
                   processed_skins, client, clockVars, retries, inflight,
                   hashname, order_data, data, wsite, sent>>

\* Lines 136-152: both arrays are evaluated in one try; when either fails,
\* both order lists are empty.
\* buy_orders with each depth array degrading on its own.
buy_orders_per_side(body) ==
    IF body.bg.ok THEN OrdersOf(body.bg.pairs) ELSE <<>>

buy_orders(body) ==
    IF body.bg.ok /\ body.sg.ok THEN OrdersOf(body.bg.pairs) ELSE <<>>

sell_orders(body) ==
    IF body.bg.ok /\ body.sg.ok THEN OrdersOf(body.sg.pairs) ELSE <<>>

\* Lines 119-120: the cents after the label, divided by 100.
buy_req(body) == PriceOf(body.buy[1])

sell_req(body) == PriceOf(body.sell[1])

\* Lines 116-153: the prices, then the depth arrays.
ParseHistogram ==
    /\ pc = "parse"
    /\ stage = "histogram"
    /\ order_data' = resp
    /\ LET text == resp[1]
       IN  IF text.buy = Absent
           THEN /\ Raise("highest_buy_order_IndexError")
                /\ Note("histogram_parse_failed")
                /\ UNCHANGED <<data, stage>>
           ELSE IF text.buy = NotInt
           THEN /\ Raise("highest_buy_order_ValueError")
                /\ Note("histogram_parse_failed")
                /\ UNCHANGED <<data, stage>>
           ELSE IF text.sell = Absent
           THEN /\ Raise("lowest_sell_order_IndexError")
                /\ Note("histogram_parse_failed")
                /\ UNCHANGED <<data, stage>>
           ELSE IF text.sell = NotInt
           THEN /\ Raise("lowest_sell_order_ValueError")
                /\ Note("histogram_parse_failed")
                /\ UNCHANGED <<data, stage>>
           ELSE /\ data' = [kind |-> "partial",
                            buy_req |-> buy_req(text),
                            sell_req |-> sell_req(text),
                            buy_orders |-> buy_orders(text),
                            sell_orders |-> sell_orders(text)]
                /\ events' = events \cup
                        (IF text.bg.ok THEN {} ELSE {"buy_graph_malformed"})
                        \cup
                        (IF text.sg.ok THEN {} ELSE {"sell_graph_malformed"})
                /\ stage' = "volume"
                /\ pc' = "get_wait"
                /\ exc' = exc
    /\ resp' = <<>>
    /\ UNCHANGED <<inputVars, fileVars, exit, i, recordVars, client,
                   clockVars, retries, inflight, hashname, nameid, wsite,
                   sent>>

\* Line 159 under the try of lines 155-163: the volume, or None.
volume_of(body) ==
    IF body.volume = Absent \/ body.volume = NotInt THEN <<>> ELSE body.volume

\* Lines 159-170: the volume, the nameid, and item_data returns.
ParseVolume ==
    /\ pc = "parse"
    /\ stage = "volume"
    /\ data' = Returned(data, volume_of(resp[1]), nameid)
    /\ events' = events \cup
            (IF resp[1].volume \in {Absent, NotInt}
             THEN {"volume_unparsable"} ELSE {})
    /\ status' = [status EXCEPT ![i] = "ORDER_BOOK_FETCHED"]
    /\ resp' = <<>>
    /\ pc' = "record"
    /\ UNCHANGED <<inputVars, fileVars, exit, i, market_data,
                   processed_skins, client, clockVars, stage, retries,
                   inflight, hashname, nameid, order_data, exc, wsite, sent>>

\* ------------------------------------------- recording and checkpointing
\* Lines 259-263: the market data is attached and the skin appended.
RecordSuccess ==
    /\ pc = "record"
    /\ market_data' = [market_data EXCEPT ![i] = data]
    /\ processed_skins' = Append(processed_skins, i)
    /\ status' = [status EXCEPT ![i] = "RECORDED_SUCCESS"]
    /\ wsite' = "try"
    /\ pc' = "write_open"
    /\ UNCHANGED <<inputVars, fileVars, exit, i, client, clockVars, getVars,
                   itemVars, exc, sent, events>>

\* Lines 270-274: the handler attaches the error and appends the skin.
HandleError ==
    /\ pc = "except"
    /\ market_data' = [market_data EXCEPT ![i] = ErrorData(exc)]
    /\ processed_skins' = Append(processed_skins, i)
    /\ status' = [status EXCEPT ![i] = "RECORDED_ERROR"]
    /\ wsite' = "except"
    /\ pc' = "write_open"
    /\ UNCHANGED <<inputVars, fileVars, exit, i, client, clockVars, getVars,
                   itemVars, exc, sent, events>>

\* The loop body's locals are dead once it ends.
ItemOver ==
    /\ hashname' = <<>>
    /\ nameid' = <<>>
    /\ order_data' = <<>>
    /\ data' = NoData
    /\ stage' = "none"
    /\ exc' = "none"
    /\ wsite' = "none"
    /\ events' = {}

\* WriteRaises with the client closed after the loop only, not in a finally.
WriteRaises_NoFinally ==
    /\ Note("write_failed")
    /\ IF wsite = "try"
       THEN /\ Raise("write_OSError")
            /\ UNCHANGED <<client, exit>>
       ELSE /\ client' = client
            /\ pc' = "done"
            /\ exit' = "unexpected"
            /\ exc' = exc

\* A checkpoint write raises OSError.  In the try block (lines 264-265) line
\* 270 catches it; in the handler (lines 275-276) it leaves the loop: finally
\* closes the client and line 291 logs it.
WriteRaises ==
    /\ Note("write_failed")
    /\ IF wsite = "try"
       THEN /\ Raise("write_OSError")
            /\ UNCHANGED <<client, exit>>
       ELSE /\ client' = "closed"
            /\ pc' = "done"
            /\ exit' = "unexpected"
            /\ exc' = exc

\* Lines 264 and 275: open(output_file, 'w') truncates the file (prev keeps
\* the records it held).
WriteOpen ==
    /\ pc = "write_open"
    /\ prev' = (IF file.st = "complete" THEN file.recs ELSE prev)
    /\ file' = FileEmpty
    /\ pc' = "write_dump"
    /\ UNCHANGED <<inputVars, file0, exit, i, recordVars, client, clockVars,
                   getVars, itemVars, exc, wsite, sent, events>>

\* ... or fails and leaves the file as it is.
WriteOpenFails ==
    /\ pc = "write_open"
    /\ WriteRaises
    /\ UNCHANGED <<inputVars, fileVars, i, recordVars, clockVars, getVars,
                   itemVars, wsite, sent>>

\* Lines 265 and 276: json.dump writes the whole accumulator; the next item.
WriteDump ==
    /\ pc = "write_dump"
    /\ file' = FileOf(Snapshot(processed_skins, market_data))
    /\ i' = i + 1
    /\ pc' = "loop"
    /\ ItemOver
    /\ UNCHANGED <<inputVars, file0, prev, exit, recordVars, client,
                   clockVars, retries, inflight, resp, sent>>

\* ... or fails part-way (the disk is full).
WriteDumpFails ==
    /\ pc = "write_dump"
    /\ file' = FilePartial
    /\ WriteRaises
    /\ UNCHANGED <<inputVars, file0, prev, i, recordVars, clockVars, getVars,
                   itemVars, wsite, sent>>

Next ==
    \/ ReadInput
    \/ ClearOpen
    \/ ClearDump
    \/ NewClient
    \/ LoopExit
    \/ Skip
    \/ BuildHashname
    \/ WaitIfNeeded
    \/ Dispatch
    \/ GetResponse
    \/ GetRateLimited
    \/ GetFails
    \/ ParseNameid
    \/ ParseHistogram
    \/ ParseVolume
    \/ RecordSuccess
    \/ HandleError
    \/ WriteOpen
    \/ WriteOpenFails
    \/ WriteDump
    \/ WriteDumpFails

Spec == Init /\ [][Next]_vars

\* The single thread keeps running: whatever step is enabled is taken.
FairSpec == Spec /\ WF_vars(Next)

\* ------------------------------------------- get_hashname on its own
\* The characters of the drawn names: a space, a percent sign and two digits
\* (so that a name may already hold "%20").
NameAlphabet == {" ", "%", "2", "0"}

RECURSIVE NamesOfLen(_)
NamesOfLen(n) ==
    IF n = 0 THEN {<<>>}
    ELSE {Append(q, c) : q \in NamesOfLen(n - 1), c \in NameAlphabet}

NamesUpTo(n) == UNION {NamesOfLen(m) : m \in 0..n}

AK47 == <<"A","K","-","4","7">>
Redline == <<"R","e","d","l","i","n","e">>

\* The wear and stat values of a call: every key of the table, one integer on
\* either side of it; stat as the catalog has it.
WearArgs == -1..5
StatArgs == {0, 1}

HashInputs ==
    [item : NamesUpTo(MaxWeaponLen) \cup {AK47},
     skin : NamesUpTo(MaxSkinLen) \cup {Redline},
     wear : WearArgs, stat : StatArgs]

Returns(v) == [raised |-> FALSE, value |-> v]
RaisesKeyError == [raised |-> TRUE, value |-> <<>>]

\* A behaviour in which get_hashname alone is called, once: no run of
\* process_all_skins takes place.
HashInit ==
    /\ args \in HashInputs
    /\ out = NoCall
    /\ pc = "hash_call"
    /\ input = "missing"
    /\ skins = <<>>
    /\ file0 = FileAbsent
    /\ file = file0
    /\ exit = "none"
    /\ i = 0
    /\ status = <<>>
    /\ market_data = <<>>
    /\ processed_skins = <<>>
    /\ client = "none"
    /\ lastSet = FALSE
    /\ sinceLast = 0
    /\ dispatched = FALSE
    /\ sinceDispatch = 0
    /\ stage = "none"
    /\ retries = 0
    /\ inflight = NoRequest
    /\ resp = <<>>
    /\ hashname = <<>>
    /\ nameid = <<>>
    /\ order_data = <<>>
    /\ data = NoData
    /\ exc = "none"
    /\ wsite = "none"
    /\ sent = <<>>
    /\ events = {}
    /\ prev = <<>>

\* Lines 58-83: the call returns the hashname or raises KeyError.
CallGetHashname ==
    /\ pc = "hash_call"
    /\ out' = IF get_hashname_raises(args.wear)
              THEN RaisesKeyError
              ELSE Returns(get_hashname(args.item, args.skin, args.wear,
                                        args.stat))
    /\ pc' = "hash_done"
    /\ UNCHANGED <<input, skins, args, fileVars, exit, i, recordVars, client,
                   clockVars, getVars, itemVars, exc, wsite, sent, events>>

HashNext == CallGetHashname

HashSpec == HashInit /\ [][HashNext]_vars

\* ------------------------------------------------------------- claims
Items == 1..Len(skins)

Terminal == {"SKIPPED", "RECORDED_SUCCESS", "RECORDED_ERROR"}

\* How many records of the accumulator are item k's.
RecordsOf(k) ==
    Cardinality({j \in 1..Len(processed_skins) : processed_skins[j] = k})

\* C1: when process_all_skins has worked through the catalog, the accumulator
\* holds exactly one record for every item with a name and none for an item
\* without one, whatever happened to the items (a checkpoint write that
\* failed included).
C1_ExactlyOneRecord ==
    (pc = "done" /\ exit = "complete") =>
        \A k \in Items : RecordsOf(k) = (IF skins[k].hasName THEN 1 ELSE 0)

\* Item k is recorded with an error that hashname building, listing-id
\* resolution or order-book fetching raised.
FetchFailed(k) ==
    /\ market_data[k].kind = "error"
    /\ market_data[k].error # "write_OSError"

\* C2: when building the hashname, resolving the listing id or fetching the
\* order book raised for item k, item k is recorded once with that error and
\* every later item has reached a terminal state when process_all_skins
\* returns.
C2_BatchNeverAborts ==
    pc = "done" =>
        \A k \in Items :
            FetchFailed(k) =>
                /\ status[k] = "RECORDED_ERROR"
                /\ RecordsOf(k) = 1
                /\ \A j \in Items : j > k => status[j] \in Terminal

\* Non-skipped items completed so far.
Completed == {k \in Items : status[k] \in {"RECORDED_SUCCESS", "RECORDED_ERROR"}}

\* C3: between two items (and after the last), the checkpoint file holds the
\* accumulator, with exactly one record per non-skipped item completed.
C3_CheckpointMatches ==
    (pc = "loop" \/ (pc = "done" /\ exit = "complete")) =>
        /\ file = FileOf(Snapshot(processed_skins, market_data))
        /\ Len(file.recs) = Cardinality(Completed)

\* C4: at every instant once the loop has been entered (the process may be
\* halted there and the file stays as it is), the file holds a complete
\* record sequence.
C4_AtomicReplace == i >= 1 => file.st = "complete"

\* C5: every request but the run's first is dispatched at least min_delay
\* after the one before it.
C5_MinSpacing ==
    (inflight.stage # "none" /\ inflight.gap # -1) => inflight.gap >= min_delay

InGet == pc \in {"get_wait", "get_send", "get_recv"}

\* C6: a call of get ends (it returns or raises), however often the request
\* is rejected by the rate limit.
C6_GetTerminates == [](InGet => <>(~InGet))

\* C7: with the input file missing or not valid JSON, the run ends without
\* touching the output file, creating a client, dispatching a request or
\* entering the loop.
C7_InputFatal ==
    input # "catalog" =>
        /\ file = file0
        /\ client = "none"
        /\ ~dispatched
        /\ inflight = NoRequest
        /\ i = 0
        /\ processed_skins = <<>>
        /\ pc \in {"start", "done"}
        /\ pc = "done" =>
              exit = (IF input = "missing" THEN "input_missing"
                      ELSE "input_invalid")

C7_Witness ==
    /\ input = "invalid_json"
    /\ pc = "done"
    /\ file = FileOf(StaleRecs)

ListingErrors ==
    {ErrorData("listing_IndexError"), ErrorData("listing_ValueError")}

\* C8: an item whose listing page has no marker, or no integer after it,
\* gets no listing id, no histogram request and no volume request, and is
\* recorded once, as an error naming the parse failure (and stays so).
C8_ListingFailurePropagates ==
    /\ "listing_unparsable" \in events =>
          /\ sent[i]["histogram"] = 0
          /\ sent[i]["volume"] = 0
          /\ nameid = <<>>
          /\ ~InGet
          /\ status[i] \in {"HASHNAME_BUILT", "RECORDED_ERROR"}
          /\ status[i] = "HASHNAME_BUILT" => pc = "except"
          /\ status[i] = "RECORDED_ERROR" => market_data[i] \in ListingErrors
    /\ \A k \in Items :
          market_data[k] \in ListingErrors =>
              /\ sent[k]["histogram"] = 0
              /\ sent[k]["volume"] = 0
              /\ status[k] = "RECORDED_ERROR"
              /\ RecordsOf(k) = 1

C8_Witness ==
    \E k \in Items :
        /\ market_data[k] = ErrorData("listing_IndexError")
        /\ sent[k]["listing"] = 1
        /\ pc = "loop"
        /\ \E j \in 1..Len(file.recs) :
              file.recs[j] = [item |-> k, market_data |->
                                  ErrorData("listing_IndexError")]

\* A price <<units, hundredths>> is cents / 100.
PriceMatches(p, cents) == p[1] * 100 + p[2] = cents /\ p[2] \in 0..99

\* The order list a depth array's pairs give, in the pairs' order.
OrdersMatch(orders, pairs) ==
    /\ Len(orders) = Len(pairs)
    /\ \A j \in 1..Len(pairs) :
          orders[j].price = pairs[j][1] /\ orders[j].count = pairs[j][2]

\* The current item's histogram text has both prices and a depth array that
\* does not evaluate.
MalformedDepth ==
    /\ order_data # <<>>
    /\ order_data[1].buy \notin {Absent, NotInt}
    /\ order_data[1].sell \notin {Absent, NotInt}
    /\ ~order_data[1].bg.ok \/ ~order_data[1].sg.ok

\* C9: a histogram with both prices and a malformed depth array does not
\* fail the item: item_data returns both order lists empty and the two prices
\* (cents / 100), and the item is recorded as a success.
C9_MalformedDepthDegrades ==
    MalformedDepth =>
        /\ status[i] \in {"LISTING_ID_RESOLVED", "ORDER_BOOK_FETCHED",
                          "RECORDED_SUCCESS", "RECORDED_ERROR"}
        /\ status[i] \in {"LISTING_ID_RESOLVED", "ORDER_BOOK_FETCHED"} =>
              /\ data.buy_orders = <<>>
              /\ data.sell_orders = <<>>
              /\ PriceMatches(data.buy_req, order_data[1].buy[1])
              /\ PriceMatches(data.sell_req, order_data[1].sell[1])
        /\ status[i] = "LISTING_ID_RESOLVED" => (InGet \/ pc = "parse")
        /\ status[i] = "RECORDED_SUCCESS" =>
              /\ market_data[i].kind = "ok"
              /\ market_data[i].buy_orders = <<>>
              /\ market_data[i].sell_orders = <<>>
              /\ PriceMatches(market_data[i].buy_req, order_data[1].buy[1])
              /\ PriceMatches(market_data[i].sell_req, order_data[1].sell[1])
        /\ status[i] = "RECORDED_ERROR" =>
              market_data[i] = ErrorData("write_OSError")

C9_Witness ==
    /\ MalformedDepth
    /\ status[i] = "RECORDED_SUCCESS"
    /\ market_data[i].buy_req = <<1, 50>>
    /\ market_data[i].sell_req = <<2, 75>>
    /\ market_data[i].buy_orders = <<>>
    /\ market_data[i].sell_orders = <<>>
    /\ pc = "write_dump"

VolumeFailed == {"volume_fetch_failed", "volume_unparsable"}

\* What item_data holds before the volume fetch, from the histogram text.
KeepsHistogram(d, text) ==
    /\ PriceMatches(d.buy_req, text.buy[1])
    /\ PriceMatches(d.sell_req, text.sell[1])
    /\ IF text.bg.ok /\ text.sg.ok
       THEN /\ OrdersMatch(d.buy_orders, text.bg.pairs)
            /\ OrdersMatch(d.sell_orders, text.sg.pairs)
       ELSE d.buy_orders = <<>> /\ d.sell_orders = <<>>

\* C10: a volume fetch that fails, in transport or in parsing, leaves volume
\* None beside the prices, order lists and listing id already obtained, and
\* the item is recorded as a success.
C10_VolumeFailureAbsorbed ==
    events \cap VolumeFailed # {} =>
        /\ status[i] \in {"ORDER_BOOK_FETCHED", "RECORDED_SUCCESS",
                          "RECORDED_ERROR"}
        /\ status[i] = "ORDER_BOOK_FETCHED" => pc = "record"
        /\ data.kind = "ok"
        /\ data.volume = <<>>
        /\ data.nameid = nameid /\ nameid # <<>>
        /\ KeepsHistogram(data, order_data[1])
        /\ status[i] = "RECORDED_SUCCESS" => market_data[i] = data
        /\ status[i] = "RECORDED_ERROR" =>
              market_data[i] = ErrorData("write_OSError")

C10_Witness ==
    /\ "volume_fetch_failed" \in events
    /\ status[i] = "RECORDED_SUCCESS"
    /\ market_data[i].volume = <<>>
    /\ market_data[i].buy_orders # <<>>
    /\ market_data[i].nameid = <<100 + i>>
    /\ pc = "write_dump"

\* The calls inside the table's keys, and the hashname each returns.
ValidInputs == {t \in HashInputs : t.wear \in 0..4}

HashnameOf ==
    [t \in ValidInputs |-> get_hashname(t.item, t.skin, t.wear, t.stat)]

\* C11: a call of get_hashname with wear in 0..4 and stat in {0, 1} returns
\* a hashname that no call with other arguments (another weapon, skin, wear
\* or stat) returns.
C11_Injective ==
    (pc = "hash_done" /\ args \in ValidInputs) =>
        /\ out = Returns(HashnameOf[args])
        /\ \A t \in ValidInputs : t # args => HashnameOf[t] # out.value

\* Item k has a name of two parts and a wear that is no key of the table.
WearOutOfRange(k) ==
    /\ skins[k].hasName
    /\ Len(Split(skins[k].name)) >= 2
    /\ skins[k].hasWear
    /\ skins[k].wear \notin 0..4

WearError == ErrorData("wear_KeyError")

\* C12: get_hashname raises for every wear outside 0..4; in a run, an item
\* with such a wear gets no hashname and no request, and once handled it is
\* in the accumulator once, as an error record, and in every complete
\* checkpoint written from then on.
C12_WearOutOfRange ==
    /\ \A w \in WearArgs : w \notin 0..4 => get_hashname_raises(w)
    /\ \A k \in Items :
          WearOutOfRange(k) =>
              /\ \A st \in Stages : sent[k][st] = 0
              /\ status[k] \in {"PENDING", "RECORDED_ERROR"}
              /\ status[k] = "RECORDED_ERROR" =>
                    market_data[k] = WearError /\ RecordsOf(k) = 1
              /\ k < i => status[k] = "RECORDED_ERROR"
              /\ (k < i /\ file.st = "complete") =>
                    \E j \in 1..Len(file.recs) :
                        file.recs[j] = [item |-> k, market_data |-> WearError]
              /\ k = i =>
                    /\ hashname = <<>>
                    /\ ~InGet
                    /\ inflight = NoRequest
                    /\ pc \in {"loop", "except", "write_open", "write_dump",
                              "done"}

C12_Witness ==
    /\ Len(skins) = 1
    /\ WearOutOfRange(1)
    /\ pc = "done"
    /\ exit = "complete"
    /\ ~dispatched
    /\ file = FileOf(<< [item |-> 1, market_data |-> WearError] >>)

\* Percent-encoding (RFC 3986): the unreserved characters stand for
\* themselves, any other character is written as the %XX of its UTF-8 bytes.
Unreserved ==
    {"A","B","C","D","E","F","G","H","I","J","K","L","M","N","O","P","Q","R",
     "S","T","U","V","W","X","Y","Z","a","b","c","d","e","f","g","h","i","j",
     "k","l","m","n","o","p","q","r","s","t","u","v","w","x","y","z","0","1",
     "2","3","4","5","6","7","8","9","-",".","_","~"}

PercentCode(c) ==
    CASE c = " " -> <<"%","2","0">>
      [] c = "%" -> <<"%","2","5">>
      [] c = "|" -> <<"%","7","C">>
      [] c = "(" -> <<"%","2","8">>
      [] c = ")" -> <<"%","2","9">>
      [] c = "(TM)" -> <<"%","E","2","%","8","4","%","A","2">>

\* s with the characters of kept left as they are and the others encoded.
RECURSIVE EncodeKeeping(_, _)
EncodeKeeping(s, kept) ==
    IF s = <<>> THEN <<>>
    ELSE (IF Head(s) \in kept THEN <<Head(s)>> ELSE PercentCode(Head(s)))
         \o EncodeKeeping(Tail(s), kept)

PercentEncoded(s) == EncodeKeeping(s, Unreserved)

\* Only the spaces of s encoded.
SpacesEncoded(s) == EncodeKeeping(s, Unreserved \cup {"%", "|", "(", ")", "(TM)"})

StatTrakMarker == <<"S","t","a","t","T","r","a","k","(TM)">>

\* " (WearName)"
WearSuffix(wear) == <<" ", "(">> \o WearNames[wear + 1] \o <<")">>

\* "[StatTrak marker ]weapon | skin (WearName)"
PlainName(t) ==
    (IF t.stat = 1 THEN StatTrakMarker \o <<" ">> ELSE <<>>)
        \o t.item \o <<" ", "|", " ">> \o t.skin \o WearSuffix(t.wear)

IsPlain(s) == \A k \in 1..Len(s) : s[k] \in Unreserved \cup {" "}

\* C13 as stated: for wear in 0..4 and stat in {0, 1} the hashname is the
\* percent-encoded form of "[StatTrak marker ]weapon | skin (WearName)".
C13_PercentEncoded ==
    (pc = "hash_done" /\ args \in ValidInputs) =>
        out = Returns(PercentEncoded(PlainName(args)))

\* C13 amended: the hashname is the marker as it is (when stat is 1) and an
\* encoded space, the weapon and the skin with only their spaces encoded,
\* joined by the encoded " | ", and the encoded " (WearName)"; it is the
\* percent-encoded form of "weapon | skin (WearName)" when stat is 0 and the
\* weapon and the skin hold unreserved characters and spaces only.
C13_SpacesEncoded ==
    (pc = "hash_done" /\ args \in ValidInputs) =>
        /\ ~out.raised
        /\ out.value =
              (IF args.stat = 1
               THEN StatTrakMarker \o PercentEncoded(<<" ">>) ELSE <<>>)
              \o SpacesEncoded(args.item)
              \o PercentEncoded(<<" ", "|", " ">>)
              \o SpacesEncoded(args.skin)
              \o PercentEncoded(WearSuffix(args.wear))
        /\ (args.stat = 0 /\ IsPlain(args.item) /\ IsPlain(args.skin)) =>
              out.value = PercentEncoded(PlainName(args))

\* get_hashname('AK-47', 'Redline', 0, 0)
C13_Witness ==
    /\ pc = "hash_done"
    /\ args = [item |-> AK47, skin |-> Redline, wear |-> 0, stat |-> 0]
    /\ out = Returns(<<"A","K","-","4","7","%","2","0","%","7","C","%","2",
                       "0","R","e","d","l","i","n","e","%","2","0","%","2",
                       "8","F","a","c","t","o","r","y","%","2","0","N","e",
                       "w","%","2","9">>)

\* The current item's histogram text has both prices and exactly one depth
\* array that does not evaluate, and item_data has gone past it.
OneSideMalformed ==
    /\ order_data # <<>>
    /\ data.kind \in {"partial", "ok"}
    /\ order_data[1].bg.ok # order_data[1].sg.ok

\* C14: when exactly one of the two depth arrays fails to parse, item_data
\* has an empty order list for that side only and the other side's pairs, in
\* their order, for the other.
C14_PerSideDegradation ==
    OneSideMalformed =>
        /\ ~order_data[1].bg.ok =>
              /\ data.buy_orders = <<>>
              /\ OrdersMatch(data.sell_orders, order_data[1].sg.pairs)
        /\ ~order_data[1].sg.ok =>
              /\ data.sell_orders = <<>>
              /\ OrdersMatch(data.buy_orders, order_data[1].bg.pairs)

\* The steps of the per-item state machine.
StatusSteps ==
    { <<"PENDING", "SKIPPED">>,
      <<"PENDING", "HASHNAME_BUILT">>,
      <<"HASHNAME_BUILT", "LISTING_ID_RESOLVED">>,
      <<"LISTING_ID_RESOLVED", "ORDER_BOOK_FETCHED">>,
      <<"ORDER_BOOK_FETCHED", "RECORDED_SUCCESS">>,
      <<"PENDING", "RECORDED_ERROR">>,
      <<"HASHNAME_BUILT", "RECORDED_ERROR">>,
      <<"LISTING_ID_RESOLVED", "RECORDED_ERROR">> }

\* Only the current item moves, along the state machine.
StatusStepOK ==
    \A k \in Items :
        status'[k] # status[k] =>
            /\ k = i
            /\ <<status[k], status'[k]>> \in StatusSteps

\* The file holds a record of item k.
InCheckpoint(k) ==
    /\ file.st = "complete"
    /\ \E j \in 1..Len(file.recs) : file.recs[j].item = k

\* A request is put on the wire for the current item: every earlier item is
\* over and, unless skipped, in the checkpoint; no later item has asked for
\* anything; within the item the listing page comes first, then the
\* histogram, then the volume.
DispatchStepOK ==
    (inflight' # inflight /\ inflight'.stage # "none") =>
        /\ \A k \in Items :
              k < i => /\ status[k] \in Terminal
                       /\ status[k] # "SKIPPED" => InCheckpoint(k)
        /\ \A k \in Items : k > i => \A st \in Stages : sent[k][st] = 0
        /\ status[i] \notin Terminal
        /\ inflight'.stage = "listing" =>
              sent[i]["histogram"] = 0 /\ sent[i]["volume"] = 0
        /\ inflight'.stage = "histogram" =>
              sent[i]["listing"] = 1 /\ sent[i]["volume"] = 0
        /\ inflight'.stage = "volume" =>
              sent[i]["listing"] = 1 /\ sent[i]["histogram"] = 1

\* C15: items move one at a time along PENDING -> SKIPPED, or PENDING ->
\* HASHNAME_BUILT -> LISTING_ID_RESOLVED -> ORDER_BOOK_FETCHED ->
\* RECORDED_SUCCESS, or from a failed step to RECORDED_ERROR, and nothing
\* leaves a terminal state; requests go out in catalog order, listing page,
\* histogram, volume, and none for a later item before the earlier item's
\* record is in the checkpoint.
C15_Sequential == [][StatusStepOK /\ DispatchStepOK]_vars

\* Record sequence b is a with one record appended.
ExtendsByOne(a, b) ==
    /\ Len(b) = Len(a) + 1
    /\ SubSeq(b, 1, Len(a)) = a

\* C16: the file is the empty sequence before the first item; each complete
\* content written after that is the content before it with exactly one
\* record appended (so no record written is changed or removed), and the
\* records are in catalog order.
C16_PrefixMonotone ==
    /\ (pc = "loop" /\ i = 1) => file = FileOf(<<>>)
    /\ (i >= 1 /\ file.st = "complete") =>
          /\ file.recs = prev \/ ExtendsByOne(prev, file.recs)
          /\ \A a, b \in 1..Len(file.recs) :
                a < b => file.recs[a].item < file.recs[b].item

\* get has just raised to item_data's caller: the request of the current
\* stage failed in transport, with no rate-limit rejection.
GetRaised ==
    /\ pc = "except"
    /\ stage \in {"listing", "histogram"}
    /\ (stage \o "_fetch_failed") \in events

\* C17: a transport failure that is no rate-limit rejection reaches the
\* caller as the httpx.HTTPError it is, with no retry and no backoff sleep
\* after it.
C17_PropagatesUnmodified ==
    GetRaised =>
        /\ exc = stage \o "_HTTPError"
        /\ retries = 0
        /\ sinceDispatch <= MaxLatency
        /\ inflight = NoRequest

\* The loop is at an item without a name.
AtNameless ==
    /\ pc = "loop"
    /\ i <= Len(skins)
    /\ ~skins[i].hasName

\* All the state but the item's place in the state machine and the loop's
\* index.
SkipFrame ==
    <<input, skins, file0, file, prev, pc, exit, market_data,
      processed_skins, client, lastSet, sinceLast, dispatched, sinceDispatch,
      stage, retries, inflight, resp, hashname, nameid, order_data, data, exc,
      wsite, sent, events>>

\* A skipped item has no request, no market data and no record, in the
\* accumulator or in the file.
SkippedLeavesNothing ==
    \A k \in Items :
        /\ status[k] = "SKIPPED" <=> (~skins[k].hasName /\ 1 <= i /\ k < i)
        /\ ~skins[k].hasName =>
              /\ status[k] \in {"PENDING", "SKIPPED"}
              /\ RecordsOf(k) = 0
              /\ market_data[k] = NoData
              /\ \A st \in Stages : sent[k][st] = 0
              /\ i >= 1 => \A j \in 1..Len(file.recs) : file.recs[j].item # k

\* C18: handling an item without a name dispatches nothing, leaves the
\* accumulator and the file as they are (the loop only moves to the next
\* item), and the item is in no record of the output.
C18_SkipChangesNothing ==
    /\ []SkippedLeavesNothing
    /\ [][AtNameless =>
            /\ UNCHANGED SkipFrame
            /\ status' = [status EXCEPT ![i] = "SKIPPED"]
            /\ i' = i + 1]_vars

C18_Witness ==
    /\ Len(skins) = 2
    /\ status = <<"SKIPPED", "RECORDED_SUCCESS">>
    /\ pc = "done"
    /\ exit = "complete"
    /\ Len(file.recs) = 1
    /\ file.recs[1].item = 2

\* A hashname was built for item k (the item may have failed later).
HashnameBuilt(k) ==
    \/ status[k] \in {"HASHNAME_BUILT", "LISTING_ID_RESOLVED",
                      "ORDER_BOOK_FETCHED", "RECORDED_SUCCESS"}
    \/ /\ status[k] = "RECORDED_ERROR"
       /\ market_data[k].error \notin {"name_IndexError", "wear_KeyError"}

\* The current item's listing-page request has not gone out yet.
ListingAhead ==
    /\ stage = "listing"
    /\ retries = 0
    /\ pc \in {"get_wait", "get_send"}

\* C19: rate-limit retries apart, an item dispatches each of its three
\* requests at most once, the histogram only after the listing page and the
\* volume only after the histogram; an item whose hashname was built
\* dispatches its own listing-page request (also when an earlier item had
\* the same hashname), an item without a hashname dispatches nothing; and a
\* histogram request carries the id that the same item's listing page gave.
C19_NoListingIdReuse ==
    /\ \A k \in Items :
          /\ \A st \in Stages : sent[k][st] <= 1
          /\ sent[k]["histogram"] <= sent[k]["listing"]
          /\ sent[k]["volume"] <= sent[k]["histogram"]
          /\ HashnameBuilt(k) =>
                (sent[k]["listing"] = 1 \/ (k = i /\ ListingAhead))
          /\ ~HashnameBuilt(k) => \A st \in Stages : sent[k][st] = 0
    /\ inflight.stage = "histogram" =>
          /\ inflight.nameid = nameid
          /\ nameid = <<100 + i>>
          /\ sent[i]["listing"] = 1

\* The second of two items of the same hashname asks for its own listing
\* page and sends the id it got with its histogram request.
C19_Witness ==
    /\ Len(skins) = 2
    /\ skins[1] = skins[2]
    /\ status[1] = "RECORDED_SUCCESS"
    /\ i = 2
    /\ sent[2]["listing"] = 1
    /\ inflight.stage = "histogram"
    /\ inflight.nameid = <<102>>
    /\ market_data[1].nameid = <<101>>

\* The client is created once, when the loop is about to start, and closed
\* once, as process_all_skins leaves the loop; a closed client stays closed.
ClientStepOK ==
    client' # client =>
        \/ client = "none" /\ client' = "open" /\ pc = "new_client"
        \/ client = "open" /\ client' = "closed" /\ pc' = "done"

\* A request is put on the wire only through the open client.
DispatchThroughClient ==
    (inflight' # inflight /\ inflight'.stage # "none") =>
        client = "open" /\ client' = "open"

ClientClosedAtExit ==
    /\ client # "none" <=> i >= 1
    /\ (pc = "done" /\ client # "none") => client = "closed"
    /\ client = "closed" => (pc = "done" /\ inflight = NoRequest)
    /\ (InGet \/ inflight # NoRequest) => client = "open"

\* C20: once created, the client is closed exactly once on every way out of
\* the loop, by its end or by an exception; every request goes out through
\* it while it is open, and none after it is closed.
C20_ClientClosedOnce ==
    /\ []ClientClosedAtExit
    /\ [][ClientStepOK /\ DispatchThroughClient]_vars

\* An exception left the loop after requests were made.
C20_Witness ==
    /\ pc = "done"
    /\ exit = "unexpected"
    /\ dispatched
    /\ client = "closed"
    /\ i = 2

====
